---- MODULE Spec2Model ----
(***************************************************************************)
(* AptLearn 15-day interview preparation portal (src/main.py).             *)
(*                                                                         *)
(* The document store is modelled as one sequence per collection, in       *)
(* insertion order, which is the order find() iterates and the order that  *)
(* decides which record find_one() returns.  Timestamps (created_at,       *)
(* updated_at, issued_at) and the rendered svg text are left out of the    *)
(* records: no handler reads them back.                                    *)
(*                                                                         *)
(* The specifications share the variables:                                 *)
(*   SpecSeq  requests run one at a time: one action per handler;          *)
(*   Spec     requests interleave: one action per store call of a handler, *)
(*            each request running in one of the worker slots Procs;       *)
(*   SpecCert is Spec started from a store whose second user is one day    *)
(*            short of the certificate;                                    *)
(*   SpecScore applies submit_attempt once to a wide set of payloads;      *)
(*   SpecQuiz fetches quizzes between submissions;                         *)
(*   SpecSeed runs startup seeding on the empty store, one action per      *)
(*            store call, over several startups.                           *)
(***************************************************************************)
EXTENDS Integers, Sequences, FiniteSets, TLC

VARIABLES
    module,       \* collection "module"
    day,          \* collection "day"
    question,     \* collection "question"
    user,         \* collection "user"
    progress,     \* collection "progress"
    attempt,      \* collection "attempt"
    certificate,  \* collection "certificate"
    pc,           \* Spec: the position of the request running in each slot
    loc,          \* Spec: the local variables of that request
    ret,          \* the last response sent, with the request that got it
    nsubmit,      \* submissions that got past the 400 check so far
    budget,       \* submissions the environment may still send
    writes,       \* the update_one calls made on "progress" so far, in order
    seed          \* startup seeding: the position of the run in progress
                  \* and what the runs so far did

content == <<module, day, question, seed>>
store == <<user, progress, attempt, certificate>>
vars == <<module, day, question, user, progress, attempt, certificate,
          pc, loc, ret, nsubmit, budget, writes, seed>>

(***************************************************************************)
(* Program constants                                                       *)
(***************************************************************************)
NumDays == 15            \* range(1, 16)
QuestionsPerDay == 5     \* range(1, 6)
NumOptions == 4          \* (i - 1) % 4, four options
CertThreshold == 15      \* len(completed_days) >= 15

(***************************************************************************)
(* Bounds of the model                                                     *)
(***************************************************************************)
MaxSubmits == 2          \* submissions sent after Init
MaxUsers == 2            \* user records the store may hold
NumProcs == 2            \* requests in flight at once (Spec)
MaxAnsLen == 6           \* longest answer list of SpecScore
MaxSeedRuns == 3         \* startups of the service, each running seed_data once

Procs == 1..NumProcs

\* The state used as the late starting point: a user who has already passed
\* all days but the last one.
PreDays == CertThreshold - 1

(***************************************************************************)
(* Sequence helpers                                                        *)
(***************************************************************************)
Range(s) == {s[i] : i \in 1..Len(s)}

Min(a, b) == IF a <= b THEN a ELSE b

IsPrefix(s, t) == Len(s) <= Len(t) /\ \A i \in 1..Len(s) : s[i] = t[i]

\* The least index of a non-empty set of indices, 0 for the empty set:
\* find_one returns the first matching record in insertion order, or None.
First(S) == IF S = {} THEN 0 ELSE CHOOSE i \in S : \A j \in S : i <= j

(***************************************************************************)
(* seed_data: the content the store holds once startup seeding has run     *)
(***************************************************************************)
ModuleKeyOf(d) == IF d <= 5 THEN "aptitude" ELSE IF d <= 10 THEN "technical" ELSE "hr"

SeedModules ==
    << [key |-> "aptitude", order |-> 1],
       [key |-> "technical", order |-> 2],
       [key |-> "hr", order |-> 3] >>

SeedDays == [d \in 1..NumDays |-> [day_number |-> d, module_key |-> ModuleKeyOf(d)]]

\* Questions are inserted day by day, i = 1..5 within a day; prompt stands
\* for "Question {i} for Day {d}: ...".
SeedQuestions ==
    [k \in 1..(NumDays * QuestionsPerDay) |->
        [day_number |-> ((k - 1) \div QuestionsPerDay) + 1,
         prompt |-> ((k - 1) % QuestionsPerDay) + 1,
         answer_index |-> ((k - 1) % QuestionsPerDay) % NumOptions]]

\* day_doc of the loop body for day d
SeedDayDoc(d) == [day_number |-> d, module_key |-> ModuleKeyOf(d)]

\* qs of the loop body for day d: i = 1..5, answer_index = (i - 1) % 4
SeedQuestionDocs(d) ==
    [i \in 1..QuestionsPerDay |->
        [day_number |-> d, prompt |-> i, answer_index |-> (i - 1) % NumOptions]]

\* A faulty variant of SeedNeeded: the guard is missing.
SeedNeededAlways(mcoll) == TRUE

\* A faulty variant of SeedNeeded: seeding restarts while modules are missing.
SeedNeededBelowThree(mcoll) == Len(mcoll) < 3

\* if modules_col.count_documents({}) > 0: return
SeedNeeded(mcoll) == ~(Len(mcoll) > 0)

\* No seeding run in progress.  runs: runs started; skipped: runs that
\* returned at the guard; done: a run that found all three collections empty
\* has completed.  During a run, d is the loop variable and fresh tells
\* whether the run found all three collections empty.
SeedIdle(runs, skipped, done) ==
    [pc |-> "idle", d |-> 0, fresh |-> FALSE,
     runs |-> runs, skipped |-> skipped, done |-> done]

(***************************************************************************)
(* submit_attempt: scoring                                                 *)
(***************************************************************************)
\* list(collection("question").find({"day_number": d}))
FindQuestions(qcoll, d) == SelectSeq(qcoll, LAMBDA q : q.day_number = d)

\* A faulty variant of ScoreFrom: the last submitted answer is never compared.
RECURSIVE ScoreFromShort(_, _, _)
ScoreFromShort(qdocs, answers, i) ==
    IF i > Len(qdocs) THEN 0
    ELSE (IF i < Len(answers) /\ answers[i] = qdocs[i].answer_index THEN 1 ELSE 0)
         + ScoreFromShort(qdocs, answers, i + 1)

\* for i, q in enumerate(qdocs): if i < len(answers) and answers[i] == q.answer_index
\* (positions are 1-based here, 0-based in the code)
RECURSIVE ScoreFrom(_, _, _)
ScoreFrom(qdocs, answers, i) ==
    IF i > Len(qdocs) THEN 0
    ELSE (IF i <= Len(answers) /\ answers[i] = qdocs[i].answer_index THEN 1 ELSE 0)
         + ScoreFrom(qdocs, answers, i + 1)

Score(qdocs, answers) == ScoreFrom(qdocs, answers, 1)

\* A faulty variant of Flagged: one violation is tolerated.
FlaggedAboveOne(violations) == violations > 1

Flagged(violations) == violations > 0

\* A faulty variant of Passed: the flag is not looked at.
PassedIgnoringFlag(score, total, flagged) == 10 * score >= 6 * total

\* (score / total) >= 0.6 and not flagged.  total > 0 here.  Python's true
\* division is correctly rounded, so score/total >= 0.6 exactly when the
\* rational score/total is at least 6/10.
Passed(score, total, flagged) == (10 * score >= 6 * total) /\ ~flagged

AttemptDoc(uid, d, answers, violations, qdocs) ==
    [user_id |-> uid, day_number |-> d, answers |-> answers,
     score |-> Score(qdocs, answers), total |-> Len(qdocs),
     violations |-> violations, flagged |-> Flagged(violations)]

\* A faulty variant of InsertAttempt: an attempt identical to a stored one is dropped.
InsertAttemptOnce(coll, doc) == IF doc \in Range(coll) THEN coll ELSE Append(coll, doc)

\* attempts.insert_one(doc)
InsertAttempt(coll, doc) == Append(coll, doc)


(***************************************************************************)
(* submit_attempt: progress update and certificate issue                   *)
(***************************************************************************)
\* prog_col.find_one({"user_id": uid})
FindProgress(coll, uid) == First({i \in 1..Len(coll) : coll[i].user_id = uid})

\* A faulty variant of NeedsAppend: the day is appended without looking.
NeedsAppendAlways(completed_days, d) == TRUE

\* if payload.day_number not in completed_days
NeedsAppend(completed_days, d) == d \notin Range(completed_days)

\* A faulty variant of UpdateOne: the update is lost.
UpdateOneLost(coll, i, completed_days) == coll

\* A faulty variant of UpdateOne: the new day is pushed onto the stored list
\* instead of the list being replaced.
UpdateOnePush(coll, i, completed_days) ==
    [coll EXCEPT ![i].completed_days = Append(@, completed_days[Len(completed_days)])]

\* prog_col.update_one({"_id": prog["_id"]}, {"$set": {"completed_days": ...}})
UpdateOne(coll, i, completed_days) == [coll EXCEPT ![i].completed_days = completed_days]

\* A faulty variant of Qualifies: the threshold is one day short.
QualifiesEarly(coll, i) == i # 0 /\ Len(coll[i].completed_days) >= CertThreshold - 1

\* if prog and len(prog.get("completed_days", [])) >= 15
Qualifies(coll, i) == i # 0 /\ Len(coll[i].completed_days) >= CertThreshold

\* cert_col.find_one({"user_id": uid})
FindCertificate(coll, uid) == First({i \in 1..Len(coll) : coll[i].user_id = uid})

\* A faulty variant of CertificateMissing: the existing certificate is not looked for.
CertificateMissingAlways(coll, uid) == TRUE

\* if not existing
CertificateMissing(coll, uid) == FindCertificate(coll, uid) = 0

\* User ids are the ObjectIds the store generates, here 1, 2, ...; a request
\* may carry any string as user_id.  InvalidIds are the strings ObjectId()
\* rejects with an exception.
InvalidIds == {0}

\* A faulty variant of ObjectIdValid: every id is rejected.
ObjectIdNeverValid(uid) == FALSE

ObjectIdValid(uid) == uid \notin InvalidIds

\* A faulty variant of FindUserByEmail: the lookup compares the name.
FindUserByName(coll, email) == First({i \in 1..Len(coll) : coll[i].name = email})

\* users.find_one({"email": email})
FindUserByEmail(coll, email) == First({i \in 1..Len(coll) : coll[i].email = email})

\* collection("user").find_one({"_id": ObjectId(uid)})
FindUserById(coll, uid) == First({i \in 1..Len(coll) : coll[i].id = uid})

\* collection("user").find_one({"email": {"$exists": True}})
FindUserWithEmail(coll) == First({i \in 1..Len(coll) : "email" \in DOMAIN coll[i]})

\* name = "Participant"; try: lookup by _id; except: any user with an email
ResolveName(users, uid) ==
    LET i == IF ObjectIdValid(uid) THEN FindUserById(users, uid)
             ELSE FindUserWithEmail(users)
    IN IF i # 0 /\ users[i].name # "" THEN users[i].name ELSE "Participant"

\* A faulty variant of InsertCertificate: an upsert keyed by user_id.
InsertCertificateOnce(coll, uid, name) ==
    IF \E i \in DOMAIN coll : coll[i].user_id = uid
    THEN coll
    ELSE Append(coll, [user_id |-> uid, name |-> name])

\* cert_col.insert_one({...})
InsertCertificate(coll, uid, name) == Append(coll, [user_id |-> uid, name |-> name])

\* The update_one calls made by the "if passed:" block run without
\* interruption, added to those made before.
WritesAfter(ws, coll, uid, d, passed) ==
    LET i == FindProgress(coll, uid)
    IN IF passed /\ i # 0 /\ NeedsAppend(coll[i].completed_days, d)
       THEN Append(ws, [prog_id |-> i, day |-> d])
       ELSE ws

\* A faulty variant of ProgressAfter: the day is recorded whether or not the
\* attempt passed.
ProgressAfterUnguarded(coll, uid, d, passed) ==
    LET i == FindProgress(coll, uid)
    IN IF i # 0 /\ NeedsAppend(coll[i].completed_days, d)
       THEN UpdateOne(coll, i, Append(coll[i].completed_days, d))
       ELSE coll

\* The "if passed:" block run without interruption.
ProgressAfter(coll, uid, d, passed) ==
    LET i == FindProgress(coll, uid)
    IN IF passed /\ i # 0 /\ NeedsAppend(coll[i].completed_days, d)
       THEN UpdateOne(coll, i, Append(coll[i].completed_days, d))
       ELSE coll

\* The certificate block run without interruption, on the progress re-read.
CertificateAfter(coll, prog, users, uid) ==
    IF Qualifies(prog, FindProgress(prog, uid)) /\ CertificateMissing(coll, uid)
    THEN InsertCertificate(coll, uid, ResolveName(users, uid))
    ELSE coll

\* return {"score", "total", "passed", "flagged", "violations"}, kept with
\* the payload that was answered
SubmitResponse(doc, passed) ==
    [op |-> "submit", status |-> 200, user_id |-> doc.user_id,
     day_number |-> doc.day_number, answers |-> doc.answers,
     violations |-> doc.violations, score |-> doc.score, total |-> doc.total,
     passed |-> passed, flagged |-> doc.flagged]

\* A faulty variant of BadRequest: the status get_quiz uses for the same case.
BadRequestAsNotFound(d) == [op |-> "submit", status |-> 404, day_number |-> d]

\* raise HTTPException(status_code=400, detail="No questions for this day")
BadRequest(d) == [op |-> "submit", status |-> 400, day_number |-> d]

(***************************************************************************)
(* get_quiz                                                                *)
(***************************************************************************)
\* A faulty variant of WithoutAnswer: the document is returned as stored.
KeepAnswer(q) == q

\* q.pop("answer_index", None)
WithoutAnswer(q) == [f \in DOMAIN q \ {"answer_index"} |-> q[f]]

\* qs = list(find({"day_number": d}, {"_id": 0})); for q in qs: q.pop(...)
QuizQuestions(qcoll, d) ==
    LET qs == FindQuestions(qcoll, d)
    IN [i \in 1..Len(qs) |-> WithoutAnswer(qs[i])]

\* return {"day_number": day_number, "questions": qs}
QuizResponse(qcoll, d) ==
    [op |-> "quiz", status |-> 200, day_number |-> d, questions |-> QuizQuestions(qcoll, d)]

\* raise HTTPException(status_code=404, detail="Quiz not found for this day")
QuizNotFound(d) == [op |-> "quiz", status |-> 404, day_number |-> d]

(***************************************************************************)
(* create_or_get_user, get_progress                                        *)
(***************************************************************************)
\* res.inserted_id: a fresh ObjectId; users are never deleted
NewObjectId(coll) == Len(coll) + 1

UserResponse(id, name, email, req_name) ==
    [op |-> "user", status |-> 200, id |-> id, name |-> name, email |-> email,
     req_name |-> req_name]

\* get_progress: the record found, or the default with no completed days
ProgressResponse(coll, uid) ==
    LET i == FindProgress(coll, uid)
    IN [op |-> "progress", status |-> 200, user_id |-> uid,
        completed_days |-> IF i = 0 THEN <<>> ELSE coll[i].completed_days]

(***************************************************************************)
(* Inputs of the requests                                                  *)
(***************************************************************************)
PerfectAnswers == <<0, 1, 2, 3, 0>>

\* POST /users payloads: the email "Ann" registered with, under another
\* (empty) name, and a second email.
UserInputs ==
    { [name |-> "", email |-> "a@x"],
      [name |-> "Bob", email |-> "b@x"] }
UserIdInputs == {1, 2} \cup InvalidIds
\* GET /quiz/{day_number}: every day, the one before and the one after
QuizDayInputs == 0..(NumDays + 1)
DayInputs == {PreDays, CertThreshold, CertThreshold + 1}
\* POST /attempt payloads: a clean pass, a perfect score with a violation,
\* and a clean submission with no answers.
AttemptInputs ==
    { [answers |-> PerfectAnswers, violations |-> 0],
      [answers |-> PerfectAnswers, violations |-> 1],
      [answers |-> <<>>, violations |-> 0] }

\* SpecScore: every answer list up to MaxAnsLen over the options; violation
\* counts around zero.
WideAnswers == UNION {[1..n -> 0..(NumOptions - 1)] : n \in 0..MaxAnsLen}
WideViolations == {-1, 0, 1}

(***************************************************************************)
(* Initial states                                                          *)
(***************************************************************************)
Idle == [op |-> "idle"]

InitContent ==
    /\ module = SeedModules
    /\ day = SeedDays
    /\ question = SeedQuestions
    /\ seed = SeedIdle(1, 0, TRUE)

InitControl ==
    /\ pc = [p \in Procs |-> "idle"]
    /\ loc = [p \in Procs |-> Idle]
    /\ ret = [op |-> "none", status |-> 0]
    /\ nsubmit = Len(attempt)
    /\ writes = <<>>

\* The store right after startup: content seeded, nobody registered.
InitFresh ==
    /\ user = <<>>
    /\ progress = <<>>
    /\ attempt = <<>>
    /\ certificate = <<>>

\* The store after "Ann" registered and passed days 1..PreDays in order,
\* each with one clean perfect submission.
InitLate ==
    /\ user = <<[id |-> 1, name |-> "Ann", email |-> "a@x"]>>
    /\ progress = <<[user_id |-> 1, completed_days |-> [d \in 1..PreDays |-> d]]>>
    /\ attempt = [d \in 1..PreDays |->
                    AttemptDoc(1, d, PerfectAnswers, 0, FindQuestions(SeedQuestions, d))]
    /\ certificate = <<>>

Init ==
    /\ InitContent
    /\ InitFresh \/ InitLate
    /\ InitControl
    /\ budget = MaxSubmits

\* The store after "Bob" registered, then a second user registered, with or
\* without a name, and passed days 1..PreDays in order.
InitLateSecond ==
    /\ \E n \in {"Ann", ""} :
         user = <<[id |-> 1, name |-> "Bob", email |-> "b@x"],
                  [id |-> 2, name |-> n, email |-> "a@x"]>>
    /\ progress = <<[user_id |-> 1, completed_days |-> <<>>],
                    [user_id |-> 2, completed_days |-> [d \in 1..PreDays |-> d]]>>
    /\ attempt = [d \in 1..PreDays |->
                    AttemptDoc(2, d, PerfectAnswers, 0, FindQuestions(SeedQuestions, d))]
    /\ certificate = <<>>

InitCert ==
    /\ InitContent
    /\ InitFresh \/ InitLateSecond
    /\ InitControl
    /\ budget = MaxSubmits

\* The store before the first startup: every collection empty.
InitSeed ==
    /\ module = <<>>
    /\ day = <<>>
    /\ question = <<>>
    /\ seed = SeedIdle(0, 0, FALSE)
    /\ InitFresh
    /\ InitControl
    /\ budget = 0

InitScore ==
    /\ InitContent
    /\ InitLate
    /\ InitControl
    /\ budget = 1

(***************************************************************************)
(* Handlers run one at a time (SpecSeq, SpecScore)                         *)
(***************************************************************************)
CreateOrGetUserExisting(name, email) ==
    LET i == FindUserByEmail(user, email)
    IN /\ i # 0
       /\ ret' = UserResponse(user[i].id, user[i].name, user[i].email, name)
       /\ UNCHANGED <<content, store, pc, loc, nsubmit, writes, budget>>

CreateOrGetUserNew(name, email) ==
    LET id == NewObjectId(user)
    IN /\ FindUserByEmail(user, email) = 0
       /\ Len(user) < MaxUsers
       /\ user' = Append(user, [id |-> id, name |-> name, email |-> email])
       /\ progress' = Append(progress, [user_id |-> id, completed_days |-> <<>>])
       /\ ret' = UserResponse(id, name, email, name)
       /\ UNCHANGED <<content, attempt, certificate, pc, loc, nsubmit, writes, budget>>

SubmitAttemptNoQuestions(uid, d, answers, violations) ==
    /\ budget > 0
    /\ FindQuestions(question, d) = <<>>
    /\ ret' = BadRequest(d)
    /\ budget' = budget - 1
    /\ UNCHANGED <<content, store, pc, loc, nsubmit, writes>>

SubmitAttempt(uid, d, answers, violations) ==
    LET qdocs == FindQuestions(question, d)
        doc == AttemptDoc(uid, d, answers, violations, qdocs)
        passed == Passed(doc.score, doc.total, doc.flagged)
        progress1 == ProgressAfter(progress, uid, d, passed)
    IN /\ budget > 0
       /\ qdocs # <<>>
       /\ attempt' = InsertAttempt(attempt, doc)
       /\ progress' = progress1
       /\ certificate' = CertificateAfter(certificate, progress1, user, uid)
       /\ ret' = SubmitResponse(doc, passed)
       /\ nsubmit' = nsubmit + 1
       /\ budget' = budget - 1
       /\ writes' = WritesAfter(writes, progress, uid, d, passed)
       /\ UNCHANGED <<content, user, pc, loc>>

GetProgress(uid) ==
    /\ ret' = ProgressResponse(progress, uid)
    /\ UNCHANGED <<content, store, pc, loc, nsubmit, writes, budget>>

NextSeq ==
    \/ \E u \in UserInputs : CreateOrGetUserExisting(u.name, u.email)
    \/ \E u \in UserInputs : CreateOrGetUserNew(u.name, u.email)
    \/ \E uid \in UserIdInputs, d \in DayInputs, a \in AttemptInputs :
          SubmitAttemptNoQuestions(uid, d, a.answers, a.violations)
    \/ \E uid \in UserIdInputs, d \in DayInputs, a \in AttemptInputs :
          SubmitAttempt(uid, d, a.answers, a.violations)
    \/ \E uid \in UserIdInputs : GetProgress(uid)

SpecSeq == Init /\ [][NextSeq]_vars

GetQuiz(d) ==
    /\ FindQuestions(question, d) # <<>>
    /\ ret' = QuizResponse(question, d)
    /\ UNCHANGED <<content, store, pc, loc, nsubmit, budget, writes>>

GetQuizNotFound(d) ==
    /\ FindQuestions(question, d) = <<>>
    /\ ret' = QuizNotFound(d)
    /\ UNCHANGED <<content, store, pc, loc, nsubmit, budget, writes>>

\* Quizzes fetched between the submissions of the first user for the last day.
NextQuiz ==
    \/ \E d \in QuizDayInputs : GetQuiz(d)
    \/ \E d \in QuizDayInputs : GetQuizNotFound(d)
    \/ \E a \in AttemptInputs : SubmitAttempt(1, NumDays, a.answers, a.violations)

SpecQuiz == Init /\ [][NextQuiz]_vars

NextScore ==
    \/ /\ budget > 0
       /\ \E d \in DayInputs, a \in WideAnswers, v \in WideViolations :
             SubmitAttemptNoQuestions(1, d, a, v)
    \/ /\ budget > 0
       /\ \E d \in DayInputs, a \in WideAnswers, v \in WideViolations :
             SubmitAttempt(1, d, a, v)

SpecScore == InitScore /\ [][NextScore]_vars

(***************************************************************************)
(* Handlers interleaved (Spec): one action per store call, the code that   *)
(* follows it up to the next store call (or the return) included.  A       *)
(* request occupies a slot p from its first store call to its return.      *)
(***************************************************************************)
Goto(p, label) == pc' = [pc EXCEPT ![p] = label]

\* A new request takes the lowest free slot: the slots are interchangeable.
FreeSlot(p) == pc[p] = "idle" /\ \A q \in Procs : pc[q] = "idle" => p <= q

\* The response leaves and the slot is free again.  Spec keeps no record of
\* the responses: what it is used for is the store the requests leave.
Return(p) ==
    /\ loc' = [loc EXCEPT ![p] = Idle]
    /\ pc' = [pc EXCEPT ![p] = "idle"]
    /\ UNCHANGED ret

\* Users some request has decided to insert and has not inserted yet.
PendingUsers == Cardinality({p \in Procs : pc[p] = "insert_user"})

\* users.find_one({"email": email}) finds the user: the handler returns.
UserFindExisting(p, name, email) ==
    LET i == FindUserByEmail(user, email)
    IN /\ FreeSlot(p)
       /\ i # 0
       /\ UNCHANGED vars

\* users.find_one({"email": email}) finds nothing: doc is built.
UserFindNone(p, name, email) ==
    /\ FreeSlot(p)
    /\ FindUserByEmail(user, email) = 0
    /\ Len(user) + PendingUsers < MaxUsers
    /\ loc' = [loc EXCEPT ![p] = [op |-> "user", name |-> name, email |-> email]]
    /\ Goto(p, "insert_user")
    /\ UNCHANGED <<content, store, ret, nsubmit, writes, budget>>

\* res = users.insert_one(doc)
UserInsert(p) ==
    LET id == NewObjectId(user)
    IN /\ pc[p] = "insert_user"
       /\ user' = Append(user, [id |-> id, name |-> loc[p].name, email |-> loc[p].email])
       /\ loc' = [loc EXCEPT ![p] = [op |-> "user", name |-> loc[p].name,
                                     email |-> loc[p].email, id |-> id]]
       /\ Goto(p, "insert_progress")
       /\ UNCHANGED <<content, progress, attempt, certificate, ret, nsubmit, writes, budget>>

\* collection("progress").insert_one({...}); return
UserInsertProgress(p) ==
    /\ pc[p] = "insert_progress"
    /\ progress' = Append(progress, [user_id |-> loc[p].id, completed_days |-> <<>>])
    /\ Return(p)
    /\ UNCHANGED <<content, user, attempt, certificate, nsubmit, writes, budget>>

\* find questions: none, so 400
AttemptNoQuestions(p, uid, d, answers, violations) ==
    /\ FreeSlot(p)
    /\ budget > 0
    /\ FindQuestions(question, d) = <<>>
    /\ budget' = budget - 1
    /\ UNCHANGED <<content, store, pc, loc, ret, nsubmit, writes>>

\* find questions, score, flagged, doc
AttemptScore(p, uid, d, answers, violations) ==
    LET qdocs == FindQuestions(question, d)
        doc == AttemptDoc(uid, d, answers, violations, qdocs)
    IN /\ FreeSlot(p)
       /\ budget > 0
       /\ qdocs # <<>>
       /\ loc' = [loc EXCEPT ![p] =
                    [op |-> "submit", doc |-> doc,
                     passed |-> Passed(doc.score, doc.total, doc.flagged)]]
       /\ Goto(p, "insert_attempt")
       /\ nsubmit' = nsubmit + 1
       /\ budget' = budget - 1
       /\ UNCHANGED <<content, store, ret, writes>>

\* attempts.insert_one(doc); passed = ...; if passed:
AttemptInsert(p) ==
    /\ pc[p] = "insert_attempt"
    /\ attempt' = InsertAttempt(attempt, loc[p].doc)
    /\ Goto(p, IF loc[p].passed THEN "find_progress" ELSE "recheck")
    /\ UNCHANGED <<content, user, progress, certificate, loc, ret, nsubmit, writes, budget>>

\* prog = prog_col.find_one(...); if prog: if day not in completed_days: append
AttemptFindProgress(p) ==
    LET i == FindProgress(progress, loc[p].doc.user_id)
        d == loc[p].doc.day_number
    IN /\ pc[p] = "find_progress"
       /\ IF i # 0 /\ NeedsAppend(progress[i].completed_days, d)
          THEN /\ loc' = [loc EXCEPT ![p] =
                            [op |-> "submit", doc |-> loc[p].doc, passed |-> loc[p].passed,
                             prog_id |-> i,
                             completed_days |-> Append(progress[i].completed_days, d)]]
               /\ Goto(p, "update_progress")
          ELSE /\ Goto(p, "recheck")
               /\ UNCHANGED loc
       /\ UNCHANGED <<content, store, ret, nsubmit, writes, budget>>

\* prog_col.update_one({"_id": prog["_id"]}, {"$set": {"completed_days": completed_days}})
AttemptUpdateProgress(p) ==
    /\ pc[p] = "update_progress"
    /\ progress' = UpdateOne(progress, loc[p].prog_id, loc[p].completed_days)
    /\ loc' = [loc EXCEPT ![p] =
                 [op |-> "submit", doc |-> loc[p].doc, passed |-> loc[p].passed]]
    /\ writes' = Append(writes, [prog_id |-> loc[p].prog_id, day |-> loc[p].doc.day_number])
    /\ Goto(p, "recheck")
    /\ UNCHANGED <<content, user, attempt, certificate, ret, nsubmit, budget>>

\* prog = collection("progress").find_one(...); if prog and len(...) >= 15
AttemptRecheck(p) ==
    /\ pc[p] = "recheck"
    /\ IF Qualifies(progress, FindProgress(progress, loc[p].doc.user_id))
       THEN Goto(p, "find_certificate") /\ UNCHANGED <<loc, ret>>
       ELSE Return(p)
    /\ UNCHANGED <<content, store, nsubmit, writes, budget>>

\* existing = cert_col.find_one(...); if not existing
AttemptFindCertificate(p) ==
    /\ pc[p] = "find_certificate"
    /\ IF CertificateMissing(certificate, loc[p].doc.user_id)
       THEN Goto(p, "find_user") /\ UNCHANGED <<loc, ret>>
       ELSE Return(p)
    /\ UNCHANGED <<content, store, nsubmit, writes, budget>>

\* the try/except block resolving the name
AttemptFindUser(p) ==
    /\ pc[p] = "find_user"
    /\ loc' = [loc EXCEPT ![p] =
                 [op |-> "submit", doc |-> loc[p].doc, passed |-> loc[p].passed,
                  name |-> ResolveName(user, loc[p].doc.user_id)]]
    /\ Goto(p, "insert_certificate")
    /\ UNCHANGED <<content, store, ret, nsubmit, writes, budget>>

\* cert_col.insert_one({...}); return
AttemptInsertCertificate(p) ==
    /\ pc[p] = "insert_certificate"
    /\ certificate' = InsertCertificate(certificate, loc[p].doc.user_id, loc[p].name)
    /\ Return(p)
    /\ UNCHANGED <<content, user, progress, attempt, nsubmit, writes, budget>>

Next ==
    \/ \E p \in Procs, u \in UserInputs : UserFindExisting(p, u.name, u.email)
    \/ \E p \in Procs, u \in UserInputs : UserFindNone(p, u.name, u.email)
    \/ \E p \in Procs : UserInsert(p)
    \/ \E p \in Procs : UserInsertProgress(p)
    \/ \E p \in Procs, uid \in UserIdInputs, d \in DayInputs, a \in AttemptInputs :
          AttemptNoQuestions(p, uid, d, a.answers, a.violations)
    \/ \E p \in Procs, uid \in UserIdInputs, d \in DayInputs, a \in AttemptInputs :
          AttemptScore(p, uid, d, a.answers, a.violations)
    \/ \E p \in Procs : AttemptInsert(p)
    \/ \E p \in Procs : AttemptFindProgress(p)
    \/ \E p \in Procs : AttemptUpdateProgress(p)
    \/ \E p \in Procs : AttemptRecheck(p)
    \/ \E p \in Procs : AttemptFindCertificate(p)
    \/ \E p \in Procs : AttemptFindUser(p)
    \/ \E p \in Procs : AttemptInsertCertificate(p)

Spec == Init /\ [][Next]_vars

SpecCert == InitCert /\ [][Next]_vars

(***************************************************************************)
(* Startup seeding (SpecSeed): one action per store call of seed_data, the  *)
(* service being started up to MaxSeedRuns times on the same store.  A      *)
(* store call may raise; on_startup swallows the exception and the run      *)
(* ends.  An insert that raises has stored a prefix of its documents.       *)
(***************************************************************************)
\* on_startup: seed_data(); modules_col.count_documents({}) > 0 -> return
SeedCount ==
    /\ seed.pc = "idle"
    /\ seed.runs < MaxSeedRuns
    /\ seed' = IF SeedNeeded(module)
               THEN [seed EXCEPT !.pc = "modules", !.runs = @ + 1,
                                 !.fresh = (module = <<>> /\ day = <<>> /\ question = <<>>)]
               ELSE [seed EXCEPT !.runs = @ + 1, !.skipped = @ + 1]
    /\ UNCHANGED <<module, day, question, store, pc, loc, ret, nsubmit, budget, writes>>

\* on_startup: count_documents raises; except Exception: pass
SeedCountFails ==
    /\ seed.pc = "idle"
    /\ seed.runs < MaxSeedRuns
    /\ seed' = [seed EXCEPT !.runs = @ + 1]
    /\ UNCHANGED <<module, day, question, store, pc, loc, ret, nsubmit, budget, writes>>

\* modules_col.insert_many(modules); the loop starts with d = 1
SeedInsertModules ==
    /\ seed.pc = "modules"
    /\ module' = module \o SeedModules
    /\ seed' = [seed EXCEPT !.pc = "day", !.d = 1]
    /\ UNCHANGED <<day, question, store, pc, loc, ret, nsubmit, budget, writes>>

\* days_col.insert_one(day_doc)
SeedInsertDay ==
    /\ seed.pc = "day"
    /\ day' = Append(day, SeedDayDoc(seed.d))
    /\ seed' = [seed EXCEPT !.pc = "questions"]
    /\ UNCHANGED <<module, question, store, pc, loc, ret, nsubmit, budget, writes>>

\* questions_col.insert_many(qs); next d, or the loop and the run end
SeedInsertQuestions ==
    /\ seed.pc = "questions"
    /\ question' = question \o SeedQuestionDocs(seed.d)
    /\ seed' = IF seed.d < NumDays
               THEN [seed EXCEPT !.pc = "day", !.d = @ + 1]
               ELSE SeedIdle(seed.runs, seed.skipped, seed.done \/ seed.fresh)
    /\ UNCHANGED <<module, day, store, pc, loc, ret, nsubmit, budget, writes>>

\* The documents of the insert the run is about to make.
SeedBatch ==
    IF seed.pc = "modules" THEN SeedModules
    ELSE IF seed.pc = "day" THEN <<SeedDayDoc(seed.d)>>
    ELSE IF seed.pc = "questions" THEN SeedQuestionDocs(seed.d)
    ELSE <<>>

\* on_startup: the pending insert raises after storing k of its documents;
\* except Exception: pass
SeedFail(k) ==
    /\ seed.pc # "idle"
    /\ k \in 0..Len(SeedBatch)
    /\ module' = IF seed.pc = "modules" THEN module \o SubSeq(SeedBatch, 1, k) ELSE module
    /\ day' = IF seed.pc = "day" THEN day \o SubSeq(SeedBatch, 1, k) ELSE day
    /\ question' = IF seed.pc = "questions" THEN question \o SubSeq(SeedBatch, 1, k)
                   ELSE question
    /\ seed' = SeedIdle(seed.runs, seed.skipped, seed.done)
    /\ UNCHANGED <<store, pc, loc, ret, nsubmit, budget, writes>>

NextSeed ==
    \/ SeedCount
    \/ SeedCountFails
    \/ SeedInsertModules
    \/ SeedInsertDay
    \/ SeedInsertQuestions
    \/ \E k \in 0..QuestionsPerDay : SeedFail(k)

SpecSeed == InitSeed /\ [][NextSeed]_vars

(***************************************************************************)
(* Properties                                                              *)
(***************************************************************************)
CompletedDays(uid) ==
    LET i == FindProgress(progress, uid)
    IN IF i = 0 THEN <<>> ELSE progress[i].completed_days

CertificateCount(uid) ==
    Cardinality({i \in 1..Len(certificate) : certificate[i].user_id = uid})

IsPassing(a) == 10 * a.score >= 6 * a.total /\ a.flagged = FALSE

StoredAnswers(d) ==
    LET q == FindQuestions(question, d) IN [i \in 1..Len(q) |-> q[i].answer_index]

Accepted == ret.op = "submit" /\ ret.status = 200

\* C1: with requests one at a time, a user whose completed_days holds 15
\* distinct days has exactly one certificate, in every state from the one
\* where the 15th day was recorded on, whatever is submitted afterwards.
C1_OneCertificateAtFifteen ==
    \A i \in 1..Len(progress) :
        Cardinality(Range(progress[i].completed_days)) >= CertThreshold
            => CertificateCount(progress[i].user_id) = 1

\* A non-passing submission by a user who already holds the certificate.
C1_Witness ==
    /\ Accepted
    /\ ~ret.passed
    /\ Cardinality(Range(CompletedDays(ret.user_id))) = CertThreshold
    /\ CertificateCount(ret.user_id) = 1

\* C2: with requests one at a time, a certificate exists for a user only if
\* that user's completed_days has at least 15 entries.
C2_CertificateOnlyAtFifteen ==
    \A c \in 1..Len(certificate) :
        Len(CompletedDays(certificate[c].user_id)) >= CertThreshold

\* A certificate has been issued by the submission just answered.
C2_Witness ==
    /\ Accepted
    /\ ret.passed
    /\ CertificateCount(ret.user_id) > 0

\* C3: with requests one at a time, no completed_days holds a day twice.
C3_NoDuplicateDays ==
    \A i \in 1..Len(progress) :
        Cardinality(Range(progress[i].completed_days)) = Len(progress[i].completed_days)

\* Two passing submissions for the same day by a user who has a progress record.
C3_Witness ==
    \E i, j \in 1..Len(attempt) :
        /\ i < j
        /\ i > PreDays
        /\ attempt[i].user_id = attempt[j].user_id
        /\ attempt[i].day_number = attempt[j].day_number
        /\ IsPassing(attempt[i]) /\ IsPassing(attempt[j])
        /\ attempt[i].day_number \in Range(CompletedDays(attempt[i].user_id))

\* C4: under any interleaving, every day in a user's completed_days is backed
\* by a stored attempt of that user for that day with score/total >= 0.6 and
\* flagged false.
C4_CompletedDaysBacked ==
    \A i \in 1..Len(progress) :
        \A d \in Range(progress[i].completed_days) :
            \E k \in 1..Len(attempt) :
                /\ attempt[k].user_id = progress[i].user_id
                /\ attempt[k].day_number = d
                /\ IsPassing(attempt[k])

\* The last day has been recorded while another submission is in flight.
C4_Witness ==
    /\ \E i \in 1..Len(progress) : CertThreshold \in Range(progress[i].completed_days)
    /\ \E p \in Procs : pc[p] = "insert_attempt"

\* C5 as claimed: with requests one at a time, a submission answered with
\* passed = true has its day in the completed_days get_progress returns
\* next, for every user_id.
C5_PassedIsListed ==
    (Accepted /\ ret.passed)
        => ret.day_number \in Range(ProgressResponse(progress, ret.user_id).completed_days)

\* C5 as amended: the same, for every user_id that has a progress record.
C5_PassedIsListedForRegistered ==
    (Accepted /\ ret.passed /\ FindProgress(progress, ret.user_id) # 0)
        => ret.day_number \in Range(ProgressResponse(progress, ret.user_id).completed_days)

\* A passing submission by a user with a progress record has been answered.
C5_Witness ==
    /\ Accepted
    /\ ret.passed
    /\ FindProgress(progress, ret.user_id) # 0
    /\ ret.day_number = CertThreshold

\* C6: a submission to a day with questions is answered with
\* flagged = (violations > 0) and passed = (10*score >= 6*total and
\* violations <= 0); the stored answers pass with no violation and do not
\* pass with one or more.
C6_FlaggedAndPassed ==
    Accepted =>
        /\ ret.flagged = (ret.violations > 0)
        /\ ret.passed = (10 * ret.score >= 6 * ret.total /\ ret.violations <= 0)
        /\ ret.answers = StoredAnswers(ret.day_number) =>
              /\ ret.violations = 0 => ret.passed
              /\ ret.violations >= 1 => ~ret.passed

\* The stored answers submitted with one violation.
C6_Witness ==
    /\ Accepted
    /\ ret.answers = StoredAnswers(ret.day_number)
    /\ ret.violations = 1
    /\ ~ret.passed

\* C7: total is the number of questions of the day and score the number of
\* positions, within both the answer list and the questions, where the answer
\* equals the stored answer_index; so 0 <= score <= total and the stored
\* answers score total.
C7_ScoreCountsMatches ==
    Accepted =>
        LET q == FindQuestions(question, ret.day_number)
            a == ret.answers
            hits == {i \in 1..Min(Len(a), Len(q)) : a[i] = q[i].answer_index}
        IN /\ ret.total = Len(q)
           /\ ret.score = Cardinality(hits)
           /\ 0 <= ret.score /\ ret.score <= ret.total
           /\ a = StoredAnswers(ret.day_number) => ret.score = ret.total

\* An answer list longer than the questions whose first answers are all right.
C7_Witness ==
    /\ Accepted
    /\ Len(ret.answers) > ret.total
    /\ ret.score = ret.total

\* C8: with requests one at a time, create_or_get_user for an email that is
\* already registered answers with the stored id, name and email, writes
\* nothing, and leaves one user with that email and one progress record for it.
C8_CreateOrGetUserIdempotent ==
    [][ (ret'.op = "user" /\ \E i \in 1..Len(user) : user[i].email = ret'.email)
          => /\ \E i \in 1..Len(user) :
                   /\ user[i].email = ret'.email
                   /\ ret'.id = user[i].id
                   /\ ret'.name = user[i].name
             /\ UNCHANGED store
             /\ Cardinality({i \in 1..Len(user') : user'[i].email = ret'.email}) = 1
             /\ Cardinality({i \in 1..Len(progress') : progress'[i].user_id = ret'.id}) = 1
      ]_vars

\* A registered email sent again under another name, answered with the stored name.
C8_Witness ==
    /\ ret.op = "user"
    /\ ret.name # ret.req_name

\* C9: under any interleaving, no two user records share an email and no
\* user has two progress records.
C9_EmailUnique ==
    /\ \A i, j \in 1..Len(user) : i # j => user[i].email # user[j].email
    /\ \A i, j \in 1..Len(progress) : i # j => progress[i].user_id # progress[j].user_id

\* Attempts some request has scored and not inserted yet.
InsertsPending == Cardinality({p \in Procs : pc[p] = "insert_attempt"})

\* C10: stored attempts are never changed or removed, each step adds at most
\* one, and every submission to a day with questions adds exactly one: the
\* attempts stored, with those about to be inserted, number the submissions
\* accepted.
C10_AttemptsAppendOnly ==
    /\ [](Len(attempt) + InsertsPending = nsubmit)
    /\ [][IsPrefix(attempt, attempt') /\ Len(attempt') <= Len(attempt) + 1]_vars

\* The same flagged submission stored twice, all requests done.
C10_Witness ==
    /\ \A p \in Procs : pc[p] = "idle"
    /\ \E i, j \in 1..Len(attempt) :
          i < j /\ attempt[i] = attempt[j] /\ attempt[i].flagged

\* C11: with requests one at a time, a submission for a day that has no
\* questions is answered 400 (not 404) and changes no collection: no attempt
\* is written and no user, progress or certificate record is created or
\* changed.
C11_NoQuestionsIsBadRequest ==
    [][ (ret'.op = "submit" /\ FindQuestions(question, ret'.day_number) = <<>>)
          => /\ ret'.status = 400
             /\ UNCHANGED <<content, store>>
      ]_vars

\* A submission for the day after the last one, answered 400 on a store that
\* holds attempts and a progress record.
C11_Witness ==
    /\ ret.op = "submit"
    /\ ret.status = 400
    /\ ret.day_number = NumDays + 1
    /\ Len(attempt) > 0
    /\ Len(progress) > 0

\* The pairs of update_one calls that wrote the same day to the same progress
\* record: two passing submissions for one (user, day) that both read the
\* list before either wrote it.
RacingWrites ==
    {w \in (DOMAIN writes) \X (DOMAIN writes) : w[1] < w[2] /\ writes[w[1]] = writes[w[2]]}

Occurrences(days, d) == Cardinality({j \in DOMAIN days : days[j] = d})

\* C12 as stated: once two racing passing submissions for the same user and
\* day have both written, that day appears more than once in completed_days.
C12_RacingWritesDuplicateDay ==
    \A w \in RacingWrites :
        Occurrences(progress[writes[w[1]].prog_id].completed_days, writes[w[1]].day) > 1

\* C12: over every interleaving of two requests no completed_days list holds
\* a day twice; each racing request replaces the whole list by the list it
\* read plus its day, so the day is stored once.
C12_RaceKeepsDaysDistinct ==
    \A i \in DOMAIN progress :
        \A j, k \in DOMAIN progress[i].completed_days :
            j < k => progress[i].completed_days[j] # progress[i].completed_days[k]

\* Two passing submissions for the same user and day raced, both wrote and
\* both returned; the day is stored exactly once.
C12_Witness ==
    /\ \A p \in Procs : pc[p] = "idle"
    /\ \E w \in RacingWrites :
         LET i == writes[w[1]].prog_id
             d == writes[w[1]].day
         IN /\ Occurrences(progress[i].completed_days, d) = 1
            /\ Cardinality({a \in DOMAIN attempt :
                              /\ attempt[a].user_id = progress[i].user_id
                              /\ attempt[a].day_number = d
                              /\ IsPassing(attempt[a])}) >= 2

CertificatesOf(coll, uid) == Cardinality({i \in DOMAIN coll : coll[i].user_id = uid})

\* C13: a request that found 15 completed days and no certificate inserts a
\* certificate whatever was inserted since it looked, so two requests of one
\* user that both looked before either inserted leave two certificates for
\* that user.
C13_RacingIssuersBothInsert ==
    [][ \A p \in Procs :
          (pc[p] = "insert_certificate" /\ pc'[p] # "insert_certificate")
            => CertificatesOf(certificate', loc[p].doc.user_id)
                 = CertificatesOf(certificate, loc[p].doc.user_id) + 1
      ]_vars

\* Both requests have returned and their user holds two certificates.
C13_Witness ==
    /\ \A p \in Procs : pc[p] = "idle"
    /\ \E i \in DOMAIN progress :
         /\ Len(progress[i].completed_days) >= CertThreshold
         /\ CertificateCount(progress[i].user_id) = 2

\* C16: with requests one at a time, a submission answered passed = false
\* adds its attempt and changes nothing else: every progress, certificate
\* and user record is the same before and after.
C16_FailedAttemptOnlyStored ==
    [][ (ret'.op = "submit" /\ ret'.status = 200 /\ ~ret'.passed)
          => /\ UNCHANGED <<user, progress, certificate>>
             /\ Len(attempt') = Len(attempt) + 1
      ]_vars

\* A failed submission by a user who already holds 15 days and a certificate:
\* the certificate block ran and found the certificate.
C16_Witness ==
    /\ Accepted
    /\ ~ret.passed
    /\ Len(CompletedDays(ret.user_id)) >= CertThreshold
    /\ CertificateCount(ret.user_id) = 1

\* C17: a request writes back the list it read plus its own day, replacing
\* whatever is stored: a day another request of the same user recorded after
\* this one read the list is not in the stored list afterwards, although
\* that request was answered passed = true.
C17_UpdateOverwritesWithOwnCopy ==
    [][ \A p \in Procs :
          (pc[p] = "update_progress" /\ pc'[p] # "update_progress")
            => progress'[loc[p].prog_id].completed_days = loc[p].completed_days
      ]_vars

\* Two passing submissions of one user for two different days, each stored,
\* each followed by its update_one, both returned; the stored list holds the
\* day written last and not the day written first.
C17_Witness ==
    /\ \A p \in Procs : pc[p] = "idle"
    /\ \E j, k \in DOMAIN writes :
         LET i == writes[j].prog_id
             stored == Range(progress[i].completed_days)
         IN /\ j < k
            /\ writes[k].prog_id = i
            /\ writes[j].day # writes[k].day
            /\ writes[j].day \notin stored
            /\ writes[k].day \in stored
            /\ \A w \in {j, k} :
                 \E a \in DOMAIN attempt :
                     /\ attempt[a].user_id = progress[i].user_id
                     /\ attempt[a].day_number = writes[w].day
                     /\ IsPassing(attempt[a])

\* C18: over every interleaving, each certificate carries the name stored
\* for the user whose id is the certificate's user_id, or "Participant" when
\* that stored name is empty; every request resolving a name holds an id the
\* store generated for a stored user, so the lookup by id finds that user and
\* the fallback to any user with an email is not taken.
C18_CertificateNameIsOwners ==
    /\ \A c \in DOMAIN certificate :
         \E u \in DOMAIN user :
             /\ user[u].id = certificate[c].user_id
             /\ certificate[c].name =
                  (IF user[u].name # "" THEN user[u].name ELSE "Participant")
    /\ \A p \in Procs :
         pc[p] = "find_user"
           => /\ loc[p].doc.user_id \notin InvalidIds
              /\ FindUserById(user, loc[p].doc.user_id) # 0

\* A certificate for a user stored without a name, issued as "Participant"
\* while another user, stored first, has a name.
C18_Witness ==
    \E c \in DOMAIN certificate :
        /\ certificate[c].name = "Participant"
        /\ FindUserById(user, certificate[c].user_id) > 1
        /\ user[1].name # ""

\* C14: once a seeding run that found the store empty has run to its end,
\* the store holds exactly 3 modules, 15 days (1-5 aptitude, 6-10 technical,
\* 11-15 hr) and 75 questions (5 per day, answer_index 0,1,2,3,0 in order),
\* and no later seeding run changes any of the three collections.
C14_SeededOnceAndForAll ==
    /\ [](seed.done =>
            /\ Len(module) = 3
            /\ {module[i].key : i \in DOMAIN module} = {"aptitude", "technical", "hr"}
            /\ Len(day) = 15
            /\ \A d \in 1..15 :
                 /\ day[d].day_number = d
                 /\ (d \in 1..5 => day[d].module_key = "aptitude")
                 /\ (d \in 6..10 => day[d].module_key = "technical")
                 /\ (d \in 11..15 => day[d].module_key = "hr")
                 /\ StoredAnswers(d) = <<0, 1, 2, 3, 0>>
            /\ Len(question) = 75
            /\ module = SeedModules /\ day = SeedDays /\ question = SeedQuestions)
    /\ [][seed.done => UNCHANGED <<module, day, question>>]_vars

\* A run completed on the empty store and a later run returned at the guard.
C14_Witness ==
    /\ seed.done
    /\ seed.skipped >= 1
    /\ seed.pc = "idle"
    /\ Len(question) = NumDays * QuestionsPerDay

\* C19: a seeding run gets past its guard only when the module collection
\* is empty, and a run started while it is non-empty writes nothing; so once
\* a run has failed after storing a module, the days and questions it did
\* not insert are never inserted by a later run.
C19_NoSeedingOverModules ==
    /\ [](seed.pc = "modules" => module = <<>>)
    /\ [][ (seed.pc = "idle" /\ Len(module) > 0)
             => UNCHANGED <<module, day, question>> ]_vars

\* A run failed after inserting all modules and some days; a later run
\* returned at the guard and the store is still incomplete.
C19_Witness ==
    /\ seed.pc = "idle"
    /\ ~seed.done
    /\ seed.skipped >= 1
    /\ Len(module) = 3
    /\ Len(day) \in 1..(NumDays - 1)
    /\ Len(question) < NumDays * QuestionsPerDay

\* Stores that differ from qcoll in answer_index values only: every answer
\* moved by the same number of options, or one answer replaced.
AnswerVariants(qcoll) ==
    {[k \in DOMAIN qcoll |-> [qcoll[k] EXCEPT !.answer_index = (@ + s) % NumOptions]] :
        s \in 0..(NumOptions - 1)}
    \cup {[qcoll EXCEPT ![k].answer_index = v] :
            k \in DOMAIN qcoll, v \in 0..(NumOptions - 1)}

\* C15: a quiz response has no answer_index field in any question and is the
\* response every store differing only in answer_index values would give for
\* that day; fetching a quiz changes no stored question (nor anything else
\* stored), so the questions later submissions are scored against are the
\* seeded ones, answer_index included.
C15_QuizHidesAnswers ==
    /\ [](ret.op = "quiz" /\ ret.status = 200 =>
            /\ \A i \in DOMAIN ret.questions : "answer_index" \notin DOMAIN ret.questions[i]
            /\ \A alt \in AnswerVariants(question) :
                 QuizQuestions(alt, ret.day_number) = ret.questions)
    /\ [][ret'.op = "quiz" => UNCHANGED <<content, store>>]_vars
    /\ [](question = SeedQuestions)

\* The quiz of the last day, five questions, fetched after a submission.
C15_Witness ==
    /\ ret.op = "quiz"
    /\ ret.status = 200
    /\ ret.day_number = NumDays
    /\ Len(ret.questions) = QuestionsPerDay
    /\ Len(attempt) > PreDays

====
